---------------------------- MODULE Spec2Model ----------------------------
(***************************************************************************)
(* A state-machine model of the blob arena game: the GameProvider context  *)
(* (src/src/context/GameContext.tsx) and the GameCanvas component          *)
(* (src/unnamed/part_000, lines 1-1064).                                   *)
(*                                                                         *)
(* Numbers.  Sizes are fixed-point, in hundredths of a size unit           *)
(* (20 -> 2000, 0.5 -> 50, 0.3 -> 30, 0.2 -> 20); x * 0.1 is x \div 10.    *)
(* Positions are whole world units.  Points are whole numbers as in the    *)
(* code (Math.floor).                                                      *)
(*                                                                         *)
(* Time.  The code reads Date.now() only in differences against a stored   *)
(* timestamp, so the model stores the differences: idleMs is               *)
(* Date.now() - lastDecayTime.current.  Time passes in the action Second,  *)
(* one second at a time, which is also when the 1000 ms interval of the    *)
(* game-mode timers effect fires.                                          *)
(*                                                                         *)
(* React.  A handler runs against the values of the render that created    *)
(* it (its closure): in the model these are the unprimed variables.  The   *)
(* state updates a handler queues are applied in order once it returns:    *)
(* in the model they are threaded through a record of pending values       *)
(* (Pending) and become the primed variables.                              *)
(***************************************************************************)
EXTENDS Integers, Sequences, FiniteSets, TLC

VARIABLES
    \* ---- GameProvider (GameContext.tsx 246-255)
    stats,            \* [livesRemaining, totalPoints, gamesPlayed, highScore,
                      \*  lastLifeReset, lastLoginDate, loginStreak], dates as days
    upgrades,         \* the ids of the upgrades whose owned flag is true
    challenges,       \* challenge id -> [currentValue, completed]
    today,            \* the calendar day, counted from the day the module was loaded
    bonuses,          \* observer: the streak bonuses credited on this day
    activePowerUps,   \* sequence of [id, expiresIn] (expiresAt - Date.now())
    currentPoints,
    gameActive,
    playerSize,
    gameMode,
    \* ---- GameCanvas (part_000 33-77)
    mounted,          \* the GameCanvas component is on screen
    player,           \* the place of the player blob (player.x, player.y)
    bots,             \* sequence of [id, pos, size]
    foods,            \* foods.length
    gameOver,
    isPaused,
    timeRemaining,
    playAreaRadius,
    idleMs,           \* Date.now() - lastDecayTime.current, capped
    timerPoints,      \* currentPoints as captured by the running interval's closure
    \* ---- observers (not program state)
    ticks,            \* updateGame calls since startGame (stands for Date.now() in bot ids)
    deaths,           \* bot-eats-player events since startGame
    log               \* what the last operation was and did (see NoLog)

vars == <<stats, upgrades, challenges, today, bonuses, activePowerUps, currentPoints, gameActive, playerSize,
          gameMode, mounted, player, bots, foods, gameOver, isPaused,
          timeRemaining, playAreaRadius, idleMs, timerPoints,
          ticks, deaths, log>>

ctxVars == <<stats, upgrades, challenges, today, bonuses, activePowerUps,
             currentPoints, gameActive, playerSize, gameMode>>

canvasVars == <<player, bots, foods, gameOver, isPaused, timeRemaining,
                playAreaRadius, idleMs>>

----------------------------------------------------------------------------
(* Program constants *)

CANVAS_WIDTH == 1000
CANVAS_HEIGHT == 1500
PLAYER_MIN_SIZE == 2000          \* 20
GROW_FLOOR == 500                \* the 5 of growPlayer's Math.max(5, ...)
BOT_FLOOR == 500                 \* the 5 of Math.max(5, bot.size - 1)
DECAY_INTERVAL == 2000           \* ms
DECAY_AMOUNT == 50               \* 0.5
ZONE_DAMAGE_BOT == 100           \* 1
FOOD_GROWTH == 30                \* 0.3
BOT_FOOD_GROWTH == 20            \* 0.2
FOOD_COUNT == 200
FOOD_REGENERATION_THRESHOLD == 150
FOOD_REGENERATION_BATCH == 30
TIME_ATTACK_DURATION == 180      \* seconds
BATTLE_ROYALE_SHRINK_RATE == 2
BATTLE_ROYALE_MIN_RADIUS == 100
INITIAL_LIVES == 10
DAILY_LIVES == 10                \* the lives of a new day
STREAK_POINTS == 5               \* the login bonus per day of the streak
STREAK_BONUS_MAX == 50
SWEEP_MS == 1000                 \* the interval of the power-up cleanup effect
TICK_MS == 1000                  \* the interval of the game-mode timers effect
FOOD_RANGE == 150                \* nearest food scan
CHASE_SCAN == 100                \* nearest smaller bot scan
AVOID_SCAN == 80                 \* nearest larger bot scan
ENEMY_SCAN == 100                \* nearest enemy scan (team mode)
ENEMY_RANGE == 80                \* steer towards the enemy
AVOID_RANGE == 60                \* steer away from the larger bot
PLAYER_AVOID_RANGE == 80         \* steer away from the larger player
CHASE_RANGE == 80                \* steer towards the smaller bot
AVOID_GAIN == 20                 \* botBaseSpeed * 2, in tenths
CHASE_GAIN == 15                 \* botBaseSpeed * 1.5, in tenths
FOOD_GAIN == 10                  \* botBaseSpeed, in tenths

Modes == {"classic", "timeAttack", "battleRoyale", "team"}

Min(a, b) == IF a < b THEN a ELSE b
Max(a, b) == IF a > b THEN a ELSE b

----------------------------------------------------------------------------
(* Bounds of the model *)

\* bots generated per run (the code generates 15, 20 or 10)
NumBots == 3
\* updateGame calls modelled per run
MaxTicks == 2
\* runs a profile plays
MaxGames == 2
\* the player's bites of food are sampled at 0, 1 and around the multiples of this
EatStep == 30
\* frames are modelled in the first and in the last MaxSecs seconds of a countdown
MaxSecs == 3
\* totalPoints of the profile that visits the store
InitPoints == 250
\* rewards are claimed while totalPoints is below this
MaxPoints == 120
\* the days that pass after the module was loaded
MaxDays == 2
\* the streak bonuses counted per day
MaxBonuses == 2

----------------------------------------------------------------------------
(* Geometry: the world is sampled at a few places.  Center is where the    *)
(* player starts, Near is 20 units from it, Edge lies outside the initial  *)
(* battle-royale safe zone.                                                *)

Center == <<CANVAS_WIDTH \div 2, CANVAS_HEIGHT \div 2>>
Near == <<520, 750>>
Edge == <<500, 1400>>
Places == {Center, Near, Edge}

InitialRadius == Min(CANVAS_WIDTH, CANVAS_HEIGHT) \div 2

\* calculateDistance, squared (world units)
Dist2(p, q) == (p[1] - q[1]) * (p[1] - q[1]) + (p[2] - q[2]) * (p[2] - q[2])

\* distance < sizeA / 2 + sizeB / 2, with sizes in hundredths: 2 * 100 * d < sa + sb.
\* Blobs 200 units apart or more never overlap at the sizes of the model
\* (the first conjunct keeps the products inside TLC's integers).
Overlap(p, sa, q, sb) ==
    /\ Dist2(p, q) < 40000
    /\ 40000 * Dist2(p, q) < (sa + sb) * (sa + sb)

\* distanceFromCenter > playAreaRadius
OutsideZone(p, radius) == Dist2(p, Center) > radius * radius

----------------------------------------------------------------------------
(* generateBots / generateFoods *)

\* 10 + Math.random() * 40, sampled
BotSizes == {1000, 2000, 3000}

\* the sizes of one generation of NumBots bots (bot-0, bot-1, ...), sampled
SessionRows == {[i \in 1..NumBots |-> 3000], [i \in 1..NumBots |-> 1000]}

SizeRows == SessionRows \cup
            {r \in [1..NumBots -> BotSizes] :
                \/ r[1] = 2000 /\ r[2] \in {1000, 2000} /\ \A i \in 3..NumBots : r[i] = 3000
                \/ r[1] = 3000 /\ \A i \in 2..NumBots : r[i] = 1000}

\* generateBots: ids bot-0.., random places and sizes. The bots of a generation
\* start together at one random place; every frame moves them (see BotMoves).
generateBots(place, row) ==
    [i \in 1..NumBots |-> [id |-> i - 1, pos |-> place, size |-> row[i]]]

generateFoods == FOOD_COUNT

----------------------------------------------------------------------------
(* Upgrades and power-ups *)

PermanentIds == {"speed_boost", "point_multiplier", "instant_kill", "auto_revive"}

Owned(id) == id \in upgrades

\* GameContext.tsx 100-201: INITIAL_UPGRADES without the cosmetic skins
UpgradeIds == PermanentIds \cup {"shield", "double_points", "extra_lives"}

Category == [id \in UpgradeIds |->
                IF id \in PermanentIds THEN "permanent"
                ELSE IF id = "extra_lives" THEN "utility" ELSE "powerup"]

Price == [speed_boost |-> 100, point_multiplier |-> 150, instant_kill |-> 200,
          auto_revive |-> 250, shield |-> 30, double_points |-> 50, extra_lives |-> 75]

\* effectDuration, ms (0: the upgrade has none)
EffectDuration == [id \in UpgradeIds |->
                      IF id = "shield" THEN 5000
                      ELSE IF id = "double_points" THEN 60000 ELSE 0]

\* the power-up is added without removing the entry it already has
activatePowerUpStacking(aps, powerUpId) ==
    IF EffectDuration[powerUpId] = 0 THEN aps
    ELSE Append(aps, [id |-> powerUpId, expiresIn |-> EffectDuration[powerUpId]])

\* GameContext.tsx 338-352, on the pending activePowerUps
activatePowerUp(aps, powerUpId) ==
    IF EffectDuration[powerUpId] = 0 THEN aps
    ELSE Append(SelectSeq(aps, LAMBDA p : p.id # powerUpId),
                [id |-> powerUpId, expiresIn |-> EffectDuration[powerUpId]])

\* GameContext.tsx 293-301: the cleanup interval, one second later
sweepPowerUps(aps) ==
    SelectSeq([i \in 1..Len(aps) |-> [aps[i] EXCEPT !.expiresIn = @ - SWEEP_MS]],
              LAMBDA p : p.expiresIn > 0)

\* the purchase leaves only the bought upgrade owned
ownUpgradeOnly(ups, upgradeId) == {upgradeId}

\* GameContext.tsx 328-332: prev.map(u => u.id === upgradeId ? {...u, owned: true} : u)
ownUpgrade(ups, upgradeId) == ups \cup {upgradeId}

\* part_000 117-121: shieldActive follows activePowerUps
ShieldActive == \E i \in 1..Len(activePowerUps) : activePowerUps[i].id = "shield"

DoublePoints == \E i \in 1..Len(activePowerUps) : activePowerUps[i].id = "double_points"

----------------------------------------------------------------------------
(* Challenges (GameContext.tsx 202-243) *)

ChallengeIds == {"eat_10_blobs", "eat_50_blobs", "survive_5_minutes", "play_daily"}

ChallengeType == [eat_10_blobs |-> "eat_blobs", eat_50_blobs |-> "eat_blobs",
                  survive_5_minutes |-> "survive_time", play_daily |-> "daily_games"]

TargetValue == [eat_10_blobs |-> 10, eat_50_blobs |-> 50,
                survive_5_minutes |-> 5, play_daily |-> 5]

Reward == [eat_10_blobs |-> 25, eat_50_blobs |-> 100,
           survive_5_minutes |-> 50, play_daily |-> 30]

INITIAL_CHALLENGES == [id \in ChallengeIds |-> [currentValue |-> 0, completed |-> FALSE]]

RECURSIVE SumRewards(_)
SumRewards(ids) ==
    IF ids = {} THEN 0
    ELSE LET id == CHOOSE x \in ids : TRUE IN Reward[id] + SumRewards(ids \ {id})

----------------------------------------------------------------------------
(* Context operations, as they act on the pending values of one handler.   *)
(* A pending record q holds the values the queued updates have produced    *)
(* so far: ps (playerSize), ga (gameActive), go (gameOver), pts            *)
(* (currentPoints), st (stats), ch (challenges), dth (the observer deaths). *)

Pending == [ps |-> playerSize, ga |-> gameActive, go |-> gameOver,
            pts |-> currentPoints, st |-> stats, ch |-> challenges, dth |-> deaths]

\* GameContext.tsx 307-309: setPlayerSize(prev => Math.max(5, prev + amount))
growPlayer(q, amount) == [q EXCEPT !.ps = Max(GROW_FLOOR, q.ps + amount)]

\* GameContext.tsx 303-305: setCurrentPoints(prev => prev + points)
updateStats(q, points) == [q EXCEPT !.pts = q.pts + points]

\* GameContext.tsx 395-398
revivePlayer(q) == [q EXCEPT !.ga = TRUE, !.ps = PLAYER_MIN_SIZE]

\* The prev that the setter of the profile store (hooks/useLocalStorage,
\* GameContext.tsx 246) hands to an updater function: the store consumes the
\* updates in the order they were sent, each applied to the stats the
\* previous one left
prevStats(q) == q.st

\* The value the setter of the challenges hands to an updater: the value the
\* updates queued before it have produced
prevChallenges(q) == q.ch

\* the progress is added, the reward is not
updateChallengeProgressNoReward(q, challengeType, value) ==
    LET prev == prevChallenges(q)
        hit == {id \in ChallengeIds : ChallengeType[id] = challengeType /\ ~prev[id].completed}
    IN  [q EXCEPT !.ch = [id \in ChallengeIds |->
                             IF id \in hit
                             THEN [currentValue |-> Min(prev[id].currentValue + value, TargetValue[id]),
                                   completed |-> prev[id].currentValue + value >= TargetValue[id]]
                             ELSE prev[id]]]

\* GameContext.tsx 400-424: every challenge of the type that is not completed
\* takes the value; one that reaches its target is completed and its reward
\* is added to totalPoints
updateChallengeProgress(q, challengeType, value) ==
    LET prev == prevChallenges(q)
        hit == {id \in ChallengeIds : ChallengeType[id] = challengeType /\ ~prev[id].completed}
        done == {id \in hit : prev[id].currentValue + value >= TargetValue[id]}
    IN  [q EXCEPT !.ch = [id \in ChallengeIds |->
                             IF id \in hit
                             THEN [currentValue |-> Min(prev[id].currentValue + value, TargetValue[id]),
                                   completed |-> id \in done]
                             ELSE prev[id]],
                  !.st = [prevStats(q) EXCEPT !.totalPoints = @ + SumRewards(done)]]

\* GameContext.tsx 369-383: the multiplier comes from the closure's upgrades
endGame(q, finalScore) ==
    LET multiplier == IF Owned("point_multiplier") THEN 2 ELSE 1
        totalScore == finalScore * multiplier
        prev == prevStats(q)
    IN  updateChallengeProgress(
            [q EXCEPT !.ga = FALSE,
                      !.st = [prev EXCEPT !.totalPoints = @ + totalScore,
                                          !.gamesPlayed = @ + 1,
                                          !.highScore = Max(@, totalScore)]],
            "daily_games", 1)

\* GameContext.tsx 354-359
refillLives(q) == [q EXCEPT !.st = [prevStats(q) EXCEPT !.livesRemaining = INITIAL_LIVES]]

\* GameContext.tsx 385-393: the test reads the closure's stats
useLife(q) ==
    IF stats.livesRemaining <= 0
    THEN q
    ELSE [q EXCEPT !.st = [prevStats(q) EXCEPT !.livesRemaining = @ - 1]]

\* part_000 643-656. cp is the currentPoints of the closure that calls it.
handleGameOver(q, cp) ==
    IF Owned("auto_revive")
    THEN revivePlayer(q)
    ELSE useLife(endGame([q EXCEPT !.go = TRUE], cp))

----------------------------------------------------------------------------
(* updateGame (part_000 235-641), stage by stage *)

\* the decision of one bot: who decided, the food around and the player's
\* team it decided with, the rule that matched, the direction of the
\* movement (not normalised) and its speed in tenths of botBaseSpeed
NoSteer == [who |-> 0, food |-> <<>>, selectedTeam |-> "red", rule |-> "none",
            dir |-> <<0, 0>>, gain |-> 0]

\* what one updateGame did, for the properties (not program state)
NoLog == [op |-> "none", eaten |-> 0, afterEat |-> 0, regen |-> 0,
          botsBefore |-> 0, eaters |-> {}, botEaten |-> {}, byPlayer |-> 0,
          spawned |-> 0, died |-> 0, ateAfterDeath |-> FALSE, equalKill |-> FALSE,
          equalEaten |-> FALSE, pairs |-> {}, won |-> FALSE, expired |-> FALSE,
          calls |-> 0, sizeBefore |-> 0, id |-> "", wasActive |-> FALSE,
          steer |-> NoSteer, moved |-> FALSE, decayed |-> FALSE, minutes |-> 0,
          eatenSizes |-> <<>>]

\* 324-337: bot i eats eatB[i] food items and grows by 0.2 for each
botFood(bs, eatB) ==
    [i \in 1..Len(bs) |-> [bs[i] EXCEPT !.size = @ + BOT_FOOD_GROWTH * eatB[i]]]

\* 340-522: the bot moves to its target; in battle royale a bot that was
\* outside the safe zone shrinks by 1, not below 5
botMove(bs, dest) ==
    [i \in 1..Len(bs) |->
        [bs[i] EXCEPT
            !.size = IF gameMode = "battleRoyale" /\ OutsideZone(bs[i].pos, playAreaRadius)
                     THEN Max(BOT_FLOOR, @ - ZONE_DAMAGE_BOT) ELSE @,
            !.pos = dest[i]]]

\* 530-538: bot i looks at every other bot, in order
RECURSIVE EatScan(_, _, _, _)
EatScan(bs, i, j, st) ==
    IF j > Len(bs) THEN st
    ELSE LET b == bs[i]
             o == bs[j]
             hit == /\ b.id # o.id
                    /\ o.id \notin st.rem
                    /\ Overlap(b.pos, b.size, o.pos, o.size)
                    /\ b.size > o.size
         IN  EatScan(bs, i, j + 1,
                     IF hit THEN [rem |-> st.rem \cup {o.id},
                                  growth |-> st.growth + o.size \div 10,
                                  eaters |-> st.eaters \cup {b.id},
                                  pairs |-> st.pairs \cup {<<b.size, o.size>>}]
                            ELSE st)

\* 526-540: the map over the bots, in order; out holds the bots mapped so far
RECURSIVE BotPass(_, _, _, _)
BotPass(bs, i, st, out) ==
    IF i > Len(bs) THEN [bots |-> out, rem |-> st.rem, eaters |-> st.eaters,
                         pairs |-> st.pairs]
    ELSE IF bs[i].id \in st.rem
         THEN BotPass(bs, i + 1, st, Append(out, bs[i]))
         ELSE LET r == EatScan(bs, i, 1, [st EXCEPT !.growth = 0])
              IN  BotPass(bs, i + 1, r,
                          Append(out, [bs[i] EXCEPT !.size = @ + r.growth]))

\* 524-541: bots eating bots; the eaten ones are filtered out at the end
botBot(bs) ==
    LET r == BotPass(bs, 1, [rem |-> {}, growth |-> 0, eaters |-> {}, pairs |-> {}], <<>>)
    IN  [bots |-> SelectSeq(r.bots, LAMBDA b : b.id \notin r.rem),
         rem |-> r.rem, eaters |-> r.eaters, pairs |-> r.pairs]

\* the batch loop runs once too often
regenerateFoodOneMore(n) ==
    IF n < FOOD_REGENERATION_THRESHOLD THEN n + FOOD_REGENERATION_BATCH + 1 ELSE n

\* 543-554
regenerateFood(n) ==
    IF n < FOOD_REGENERATION_THRESHOLD THEN n + FOOD_REGENERATION_BATCH ELSE n

\* the points without the double_points power-up
eatPointsSingle(size) ==
    (size \div 200) * (IF Owned("point_multiplier") THEN 2 ELSE 1)

\* 586-589: the points for a bot of the given size (hundredths)
eatPoints(size) ==
    LET basePoints == size \div 200
        multiplier == IF Owned("point_multiplier") THEN 2 ELSE 1
        doubleMultiplier == IF DoublePoints THEN 2 ELSE 1
    IN  basePoints * multiplier * doubleMultiplier

\* 578-627: the forEach over the bots present when it starts. a holds the
\* pending values q, newPlayerSize nps, botsToRemoveFromPlayer rem, the
\* bots pushed so far add, and what happened for the log.
RECURSIVE PlayerPass(_, _, _, _)
PlayerPass(bs, i, a, newBot) ==
    IF i > Len(bs) THEN a
    ELSE LET b == bs[i] IN
         IF b.id \in a.rem \/ ~Overlap(player, a.nps, b.pos, b.size)
         THEN PlayerPass(bs, i + 1, a, newBot)
         ELSE IF a.nps > b.size \/ Owned("instant_kill")
         THEN LET totalPoints == eatPoints(b.size)
                  growthAmount == b.size \div 10
              IN  PlayerPass(bs, i + 1,
                      [a EXCEPT !.q = growPlayer(
                                          updateChallengeProgress(
                                              updateStats(@, totalPoints), "eat_blobs", 1),
                                          growthAmount),
                                !.nps = @ + growthAmount,
                                !.rem = @ \cup {b.id},
                                !.sizes = Append(@, b.size),
                                !.add = IF gameMode # "battleRoyale"
                                        THEN Append(@, newBot) ELSE @,
                                !.byPlayer = @ + 1,
                                !.ateAfterDeath = @ \/ a.died > 0,
                                !.equalEaten = @ \/ (a.nps = b.size /\ ~Owned("instant_kill"))],
                      newBot)
         ELSE IF ~ShieldActive
         THEN PlayerPass(bs, i + 1,
                      [a EXCEPT !.q = handleGameOver([@ EXCEPT !.dth = @ + 1], currentPoints),
                                !.died = @ + 1,
                                !.equalKill = @ \/ a.nps = b.size],
                      newBot)
         ELSE PlayerPass(bs, i + 1, a, newBot)

RECURSIVE SumTo(_, _)
SumTo(f, n) == IF n = 0 THEN 0 ELSE f[n] + SumTo(f, n - 1)

\* a timers effect that ignores the pause
TimerLiveWhilePaused(m, ga, go, p) == m /\ ga /\ ~go

\* The interval of the game-mode timers effect (part_000 93-115) exists
\* while this holds
TimerLive(m, ga, go, p) == m /\ ga /\ ~go /\ ~p

\* The effect re-runs, and its interval captures the handlers of the new
\* render, when one of its dependencies changed
timerClosure(m, ga, go, p, mode, pts) ==
    IF ~TimerLive(m, ga, go, p) THEN 0
    ELSE IF <<m, ga, go, p, mode>> = <<mounted, gameActive, gameOver, isPaused, gameMode>>
         THEN timerPoints
         ELSE pts

\* updateGame with the frame's inputs: in.moved (a nonzero movement was
\* applied) and in.dest (where it leads), in.eatP (food items overlapping
\* the player), in.eatB (food items overlapping each bot), in.botDest
\* (where the steering takes each bot), in.spawnPos and in.spawnSize (the
\* random place and size of a replacement bot), in.minutes (the whole
\* minutes of wall-clock time since gameStartTime, set at mount and restart).
updateGame(in) ==
    LET br == gameMode = "battleRoyale"
        \* 241-249 decay
        decayDue == idleMs > DECAY_INTERVAL
        shrink == decayDue /\ playerSize > PLAYER_MIN_SIZE
        q1 == IF shrink THEN growPlayer(Pending, 0 - DECAY_AMOUNT) ELSE Pending
        nps1 == IF shrink THEN Max(PLAYER_MIN_SIZE, playerSize - DECAY_AMOUNT)
                ELSE playerSize
        \* 307-322 player eats food
        growth == FOOD_GROWTH * in.eatP
        q2 == IF growth > 0 THEN growPlayer(q1, growth) ELSE q1
        nps2 == nps1 + growth
        \* 324-337 bots eat food
        bs1 == botFood(bots, in.eatB)
        afterEat == foods - in.eatP - SumTo(in.eatB, Len(bots))
        \* 340-541 bots move, then eat each other
        bb == botBot(botMove(bs1, in.botDest))
        \* 556-566 battle royale: the player outside the safe zone
        outside == br /\ OutsideZone(player, playAreaRadius)
        q3 == IF outside THEN growPlayer(q2, 0 - DECAY_AMOUNT) ELSE q2
        nps3 == IF outside THEN Max(PLAYER_MIN_SIZE, nps2 - DECAY_AMOUNT) ELSE nps2
        \* 568-571 battle royale: only the player remains
        won == br /\ Len(bb.bots) = 0
        q4 == IF won THEN handleGameOver(q3, currentPoints) ELSE q3
        \* 573-630 player against bots
        newBot == [id |-> NumBots + ticks, pos |-> in.spawnPos, size |-> in.spawnSize]
        a == PlayerPass(bb.bots, 1,
                        [q |-> q4, nps |-> nps3, rem |-> {}, add |-> <<>>, sizes |-> <<>>,
                         byPlayer |-> 0, died |-> 0, ateAfterDeath |-> FALSE,
                         equalKill |-> FALSE, equalEaten |-> FALSE],
                        newBot)
        \* 636-640 survival time
        q5 == IF in.minutes >= 1
              THEN updateChallengeProgress(a.q, "survive_time", in.minutes)
              ELSE a.q
    IN  [q |-> q5,
         player |-> IF in.moved THEN in.dest ELSE player,
         idleMs |-> IF decayDue \/ in.moved THEN 0 ELSE idleMs,
         foods |-> regenerateFood(afterEat),
         bots |-> SelectSeq(bb.bots \o a.add, LAMBDA b : b.id \notin a.rem),
         log |-> [op |-> "tick", eaten |-> foods - afterEat, afterEat |-> afterEat,
                  regen |-> regenerateFood(afterEat) - afterEat,
                  botsBefore |-> Len(bots), eaters |-> bb.eaters, botEaten |-> bb.rem,
                  byPlayer |-> a.byPlayer, spawned |-> Len(a.add), died |-> a.died,
                  ateAfterDeath |-> a.ateAfterDeath, equalKill |-> a.equalKill,
                  equalEaten |-> a.equalEaten, pairs |-> bb.pairs, won |-> won,
                  expired |-> FALSE, id |-> "", wasActive |-> FALSE, steer |-> NoSteer,
                  moved |-> in.moved, decayed |-> shrink, minutes |-> in.minutes,
                  eatenSizes |-> a.sizes,
                  calls |-> a.died + (IF won THEN 1 ELSE 0), sizeBefore |-> playerSize]]

----------------------------------------------------------------------------
(* The steering of one bot (part_000 352-498): the three scans and the     *)
(* cascade of rules, of which the first that finds a target decides.       *)

\* part_000 196: the teams alternate with the index of the bot in team mode
botTeam(b) ==
    IF gameMode = "team" THEN (IF b.id % 2 = 0 THEN "red" ELSE "blue") ELSE "none"

\* the walk of forEach with "distance < nearest...Distance": the first of the
\* candidates at the least distance (0: none)
nearestOf(cands, d2) ==
    IF cands = {} THEN 0
    ELSE CHOOSE k \in cands :
             \A j \in cands : d2[k] < d2[j] \/ (d2[k] = d2[j] /\ k <= j)

\* part_000 352-498: bot i decides, with the food items food around, the
\* player in team selectedTeam and the wander velocity v
steerBot(i, food, selectedTeam, v) ==
    LET bot == bots[i]
        n == Len(bots)
        bd == [k \in 1..n |-> Dist2(bot.pos, bots[k].pos)]
        fd == [k \in 1..Len(food) |-> Dist2(bot.pos, food[k])]
        pd == Dist2(bot.pos, player)
        \* 356-366
        nearestFood == nearestOf({k \in 1..Len(food) : fd[k] < FOOD_RANGE * FOOD_RANGE}, fd)
        \* 368-380
        nearestSmallBot ==
            nearestOf({k \in 1..n : /\ bots[k].id # bot.id
                                    /\ bots[k].size * 10 < bot.size * 8
                                    /\ bd[k] < CHASE_SCAN * CHASE_SCAN}, bd)
        \* 382-394
        nearestLargeBot ==
            nearestOf({k \in 1..n : /\ bots[k].id # bot.id
                                    /\ bots[k].size * 10 > bot.size * 12
                                    /\ bd[k] < AVOID_SCAN * AVOID_SCAN}, bd)
        \* 397-419: the nearest smaller bot of the other team, or the player
        \* if nearer (0: none, n + 1: the player)
        team == gameMode = "team" /\ botTeam(bot) # "none"
        enemyBot ==
            nearestOf({k \in 1..n : /\ bots[k].id # bot.id
                                    /\ botTeam(bots[k]) # botTeam(bot)
                                    /\ bots[k].size < bot.size
                                    /\ bd[k] < ENEMY_SCAN * ENEMY_SCAN}, bd)
        playerEnemy == /\ selectedTeam # botTeam(bot)
                       /\ playerSize < bot.size
                       /\ enemyBot # 0 => pd < bd[enemyBot]
                       /\ pd < ENEMY_SCAN * ENEMY_SCAN
        nearestEnemy == IF playerEnemy THEN n + 1 ELSE enemyBot
        enemyPos == IF nearestEnemy = n + 1 THEN player ELSE bots[nearestEnemy].pos
        enemyD2 == IF nearestEnemy = n + 1 THEN pd ELSE bd[nearestEnemy]
        towards(p) == <<p[1] - bot.pos[1], p[2] - bot.pos[2]>>
        away(p) == <<bot.pos[1] - p[1], bot.pos[2] - p[2]>>
        found(rule, dir, gain) ==
            [NoSteer EXCEPT !.who = i, !.food = food, !.selectedTeam = selectedTeam,
                            !.rule = rule, !.dir = dir, !.gain = gain]
    IN  \* 421-432
        IF /\ team /\ nearestEnemy # 0
           /\ enemyD2 < ENEMY_RANGE * ENEMY_RANGE /\ enemyD2 > 0
        THEN found("enemy", towards(enemyPos), CHASE_GAIN)
        \* 435-446
        ELSE IF /\ nearestLargeBot # 0
                /\ bd[nearestLargeBot] < AVOID_RANGE * AVOID_RANGE
                /\ bd[nearestLargeBot] > 0
        THEN found("avoidBot", away(bots[nearestLargeBot].pos), AVOID_GAIN)
        \* 448-462
        ELSE IF /\ pd < PLAYER_AVOID_RANGE * PLAYER_AVOID_RANGE
                /\ playerSize * 10 > bot.size * 12
                /\ ~ShieldActive
                /\ pd > 0
        THEN found("avoidPlayer", away(player), AVOID_GAIN)
        \* 464-475
        ELSE IF /\ nearestSmallBot # 0
                /\ bd[nearestSmallBot] < CHASE_RANGE * CHASE_RANGE
                /\ bd[nearestSmallBot] > 0
        THEN found("chaseBot", towards(bots[nearestSmallBot].pos), CHASE_GAIN)
        \* 477-488
        ELSE IF nearestFood # 0 /\ fd[nearestFood] > 0
        THEN found("food", towards(food[nearestFood]), FOOD_GAIN)
        \* 490-498
        ELSE found("wander", v, FOOD_GAIN)

----------------------------------------------------------------------------
(* The inputs of a frame, sampled.  A frame in which nothing but steady    *)
(* motion happens is not modelled; a modelled frame is the quiet frame     *)
(* with one thing happening in it.                                         *)

\* nothing moves to another place, nothing is eaten
Quiet == [moved |-> FALSE, dest |-> player, eatP |-> 0,
          eatB |-> [i \in 1..Len(bots) |-> 0],
          botDest |-> [i \in 1..Len(bots) |-> bots[i].pos],
          spawnPos |-> Edge, spawnSize |-> 3000, minutes |-> 0]

\* the player applies a movement
PlayerMoves == {[Quiet EXCEPT !.moved = TRUE, !.dest = p] : p \in {Center, Edge}}

\* the steering takes one bot to another place
BotMoves == {[Quiet EXCEPT !.botDest[i] = p] :
                i \in 1..Len(bots), p \in Places}

\* food: the player's bite, or one item for the first bot
EatChoices == {k \in 1..foods : k = 1 \/ k % EatStep \in {0, 1}}

FoodFrames == {[Quiet EXCEPT !.eatP = k] : k \in EatChoices} \cup
              {[Quiet EXCEPT !.eatB[i] = 1] : i \in 1..Min(1, Min(Len(bots), foods))}

\* the replacement bot is small and lands on the centre
SmallSpawn == {[Quiet EXCEPT !.spawnPos = Center, !.spawnSize = 1000]}

SessionFrames == {Quiet} \cup {[Quiet EXCEPT !.moved = TRUE, !.dest = Edge]}

ArenaFrames == {Quiet} \cup PlayerMoves \cup BotMoves \cup SmallSpawn \cup
               {[Quiet EXCEPT !.eatP = 1]} \cup
               {[Quiet EXCEPT !.eatB[i] = 1] : i \in 1..Min(1, Min(Len(bots), foods))}

----------------------------------------------------------------------------
(* Initial state: the provider is constructed from the persisted profile   *)
(* (useLocalStorage), the canvas is not mounted yet.                       *)

\* stats.livesRemaining of the persisted profile, sampled
InitLives == {0, 1, 2, INITIAL_LIVES}

\* owned permanent upgrades of the persisted profile, sampled
InitUpgrades == SUBSET {"auto_revive", "instant_kill"}

\* the component state before mount and after unmount (useState initial values)
CanvasReset ==
    /\ player' = Center
    /\ bots' = <<>>
    /\ foods' = 0
    /\ gameOver' = FALSE
    /\ isPaused' = FALSE
    /\ timeRemaining' = TIME_ATTACK_DURATION
    /\ playAreaRadius' = InitialRadius
    /\ idleMs' = 0

\* everything but the persisted profile (GameContext.tsx 250-255, part_000 59-77)
Constructed ==
    /\ today = 0
    /\ bonuses = 0
    /\ activePowerUps = <<>>
    /\ currentPoints = 0
    /\ gameActive = FALSE
    /\ playerSize = PLAYER_MIN_SIZE
    /\ gameMode = "classic"
    /\ mounted = FALSE
    /\ player = Center
    /\ bots = <<>>
    /\ foods = 0
    /\ gameOver = FALSE
    /\ isPaused = FALSE
    /\ timeRemaining = TIME_ATTACK_DURATION
    /\ playAreaRadius = InitialRadius
    /\ idleMs = 0
    /\ timerPoints = 0
    /\ ticks = 0
    /\ deaths = 0
    /\ log = NoLog

Init ==
    /\ stats \in [livesRemaining : InitLives, totalPoints : {0},
                  gamesPlayed : {0}, highScore : {0},
                  lastLifeReset : {0}, lastLoginDate : {0}, loginStreak : {1}]
    /\ upgrades \in InitUpgrades
    /\ challenges = INITIAL_CHALLENGES
    /\ Constructed

----------------------------------------------------------------------------
(* Operations *)

\* the mode is changed at any time, also during a run
SetGameModeAnytime(m) ==
    /\ m # gameMode
    /\ gameMode' = m
    /\ log' = [NoLog EXCEPT !.op = "mode"]
    /\ UNCHANGED <<stats, upgrades, challenges, today, bonuses, activePowerUps,
                   currentPoints, gameActive, playerSize, mounted, canvasVars,
                   timerPoints, ticks, deaths>>

\* GameContext.tsx 254: the mode is chosen on the home screen
SetGameMode(m) ==
    /\ ~mounted
    /\ ~gameActive
    /\ m # gameMode
    /\ gameMode' = m
    /\ log' = [NoLog EXCEPT !.op = "mode"]
    /\ UNCHANGED <<stats, upgrades, challenges, today, bonuses, activePowerUps,
                   currentPoints, gameActive, playerSize, mounted, canvasVars,
                   timerPoints, ticks, deaths>>

\* part_000 59-90: the component mounts with its initial state and the
\* initialize effect generates the world
Mount(place, row) ==
    /\ ~mounted
    /\ mounted' = TRUE
    /\ player' = Center
    /\ bots' = generateBots(place, row)
    /\ foods' = generateFoods
    /\ gameOver' = FALSE
    /\ isPaused' = FALSE
    /\ timeRemaining' = TIME_ATTACK_DURATION
    /\ playAreaRadius' = InitialRadius
    /\ idleMs' = 0
    /\ timerPoints' = timerClosure(TRUE, gameActive, FALSE, FALSE, gameMode, currentPoints)
    /\ log' = [NoLog EXCEPT !.op = "mount"]
    /\ UNCHANGED <<ctxVars, ticks, deaths>>

\* part_000 1018-1024 and 954-959: the Home button (onGameEnd) leaves the
\* game screen. What leaving does to a live run is decided outside the
\* component, so only leaving between runs is modelled.
GoHome ==
    /\ mounted /\ ~gameActive
    /\ mounted' = FALSE
    /\ CanvasReset
    /\ timerPoints' = 0
    /\ log' = [NoLog EXCEPT !.op = "home"]
    /\ UNCHANGED <<ctxVars, ticks, deaths>>

\* GameContext.tsx 361-367, from the Start Game button (part_000 1048-1054),
\* which shows while neither gameActive nor gameOver
StartGame ==
    /\ mounted /\ ~gameActive /\ ~gameOver
    /\ stats.gamesPlayed < MaxGames
    /\ gameActive' = TRUE
    /\ currentPoints' = 0
    /\ playerSize' = PLAYER_MIN_SIZE
    /\ timerPoints' = timerClosure(mounted, TRUE, gameOver, isPaused, gameMode, 0)
    /\ ticks' = 0
    /\ deaths' = 0
    /\ log' = [NoLog EXCEPT !.op = "start"]
    /\ UNCHANGED <<stats, upgrades, challenges, activePowerUps, gameMode, today, bonuses, mounted,
                   canvasVars>>

\* the guard lets an empty life pool restart
handleRestartFromZero(place, row) ==
    /\ mounted /\ gameOver
    /\ IF stats.livesRemaining >= 0
       THEN /\ stats.gamesPlayed < MaxGames
            /\ gameOver' = FALSE
            /\ player' = Center
            /\ bots' = generateBots(place, row)
            /\ foods' = generateFoods
            /\ gameActive' = TRUE
            /\ currentPoints' = 0
            /\ playerSize' = PLAYER_MIN_SIZE
            /\ timerPoints' = timerClosure(mounted, TRUE, FALSE, isPaused, gameMode, 0)
            /\ ticks' = 0
            /\ deaths' = 0
            /\ log' = [NoLog EXCEPT !.op = "restart"]
       ELSE /\ log' = [NoLog EXCEPT !.op = "norestart"]
            /\ UNCHANGED <<gameOver, player, bots, foods, gameActive, currentPoints,
                           playerSize, timerPoints, ticks, deaths>>
    /\ UNCHANGED <<stats, upgrades, challenges, activePowerUps, gameMode, today, bonuses, mounted, isPaused,
                   timeRemaining, playAreaRadius, idleMs>>

\* part_000 658-674: the handler of the Retry button of the game-over screen.
\* With no life left it does nothing (the observer records the call).
handleRestart(place, row) ==
    /\ mounted /\ gameOver
    /\ IF stats.livesRemaining > 0
       THEN /\ stats.gamesPlayed < MaxGames
            /\ gameOver' = FALSE
            /\ player' = Center
            /\ bots' = generateBots(place, row)
            /\ foods' = generateFoods
            /\ gameActive' = TRUE
            /\ currentPoints' = 0
            /\ playerSize' = PLAYER_MIN_SIZE
            /\ timerPoints' = timerClosure(mounted, TRUE, FALSE, isPaused, gameMode, 0)
            /\ ticks' = 0
            /\ deaths' = 0
            /\ log' = [NoLog EXCEPT !.op = "restart"]
       ELSE /\ log' = [NoLog EXCEPT !.op = "norestart"]
            /\ UNCHANGED <<gameOver, player, bots, foods, gameActive, currentPoints,
                           playerSize, timerPoints, ticks, deaths>>
    /\ UNCHANGED <<stats, upgrades, challenges, activePowerUps, gameMode, today, bonuses, mounted, isPaused,
                   timeRemaining, playAreaRadius, idleMs>>

\* part_000 136-142 (space key) and 960-965 (pause button)
TogglePause ==
    /\ mounted
    /\ isPaused' = ~isPaused
    /\ timerPoints' = timerClosure(mounted, gameActive, gameOver, ~isPaused,
                                   gameMode, currentPoints)
    /\ log' = [NoLog EXCEPT !.op = "pause"]
    /\ UNCHANGED <<ctxVars, mounted, player, bots, foods, gameOver, timeRemaining,
                   playAreaRadius, idleMs, ticks, deaths>>

\* One second passes. While the interval of the game-mode timers effect
\* (part_000 93-115) exists, its callback runs: the handlers it calls are
\* those of the render that created the interval.
Second ==
    /\ \/ mounted /\ (ticks = 0 \/ idleMs <= DECAY_INTERVAL)
       \/ ~mounted /\ activePowerUps # <<>>
    /\ LET live == TimerLive(mounted, gameActive, gameOver, isPaused)
           expired == live /\ gameMode = "timeAttack" /\ timeRemaining <= 1
           q == IF expired THEN handleGameOver(Pending, timerPoints) ELSE Pending
       IN  /\ timeRemaining' = IF live /\ gameMode = "timeAttack"
                               THEN (IF timeRemaining <= 1 THEN 0 ELSE timeRemaining - 1)
                               ELSE timeRemaining
           /\ playAreaRadius' = IF live /\ gameMode = "battleRoyale"
                                THEN Max(BATTLE_ROYALE_MIN_RADIUS,
                                         playAreaRadius - BATTLE_ROYALE_SHRINK_RATE)
                                ELSE playAreaRadius
           /\ playerSize' = q.ps
           /\ gameActive' = q.ga
           /\ gameOver' = q.go
           /\ currentPoints' = q.pts
           /\ stats' = q.st
           /\ challenges' = q.ch
           /\ timerPoints' = timerClosure(mounted, q.ga, q.go, isPaused, gameMode, q.pts)
           /\ log' = [NoLog EXCEPT !.op = "second", !.expired = expired,
                                   !.calls = IF expired THEN 1 ELSE 0]
    /\ idleMs' = IF mounted THEN Min(idleMs + TICK_MS, DECAY_INTERVAL + TICK_MS) ELSE idleMs
    /\ activePowerUps' = sweepPowerUps(activePowerUps)
    /\ UNCHANGED <<upgrades, gameMode, today, bonuses, mounted, player, bots, foods,
                   isPaused, ticks, deaths>>

\* GameContext.tsx 311-336: an unknown upgrade or one that costs more than
\* the profile holds is refused
purchaseUpgrade(upgradeId) ==
    IF upgradeId \notin UpgradeIds \/ stats.totalPoints < Price[upgradeId]
    THEN UNCHANGED <<stats, activePowerUps, upgrades>>
    ELSE /\ LET q1 == IF Category[upgradeId] = "utility" THEN refillLives(Pending)
                      ELSE Pending
                q2 == [q1 EXCEPT !.st = [prevStats(q1) EXCEPT
                                            !.totalPoints = @ - Price[upgradeId]]]
            IN  stats' = q2.st
         /\ activePowerUps' = IF Category[upgradeId] = "powerup"
                              THEN activatePowerUp(activePowerUps, upgradeId)
                              ELSE activePowerUps
         /\ upgrades' = IF Category[upgradeId] \notin {"powerup", "utility"}
                        THEN ownUpgrade(upgrades, upgradeId)
                        ELSE upgrades

\* the Purchase button without the test of the owned flag
handlePurchaseAgain(upgradeId) ==
    /\ ~mounted
    /\ purchaseUpgrade(upgradeId)
    /\ log' = [NoLog EXCEPT !.op = IF upgradeId \in UpgradeIds
                                      /\ stats.totalPoints >= Price[upgradeId]
                                   THEN "purchase" ELSE "nopurchase",
                            !.id = upgradeId,
                            !.wasActive = \E i \in 1..Len(activePowerUps) :
                                              activePowerUps[i].id = upgradeId]
    /\ UNCHANGED <<challenges, currentPoints, gameActive, playerSize, gameMode, today, bonuses, mounted,
                   canvasVars, timerPoints, ticks, deaths>>

\* Store.tsx 13-20: the Purchase button of the store screen. A refused
\* purchase changes nothing (the observer records the call).
handlePurchase(upgradeId) ==
    /\ ~mounted
    /\ IF upgradeId \notin UpgradeIds \/ Owned(upgradeId)
          \/ stats.totalPoints < Price[upgradeId]
       THEN /\ log' = [NoLog EXCEPT !.op = "nopurchase", !.id = upgradeId]
            /\ UNCHANGED <<stats, activePowerUps, upgrades>>
       ELSE /\ purchaseUpgrade(upgradeId)
            /\ log' = [NoLog EXCEPT !.op = "purchase", !.id = upgradeId,
                                    !.wasActive = \E i \in 1..Len(activePowerUps) :
                                                      activePowerUps[i].id = upgradeId]
    /\ UNCHANGED <<challenges, currentPoints, gameActive, playerSize, gameMode, today, bonuses, mounted,
                   canvasVars, timerPoints, ticks, deaths>>

\* GameContext.tsx 84-92; new Date() is evaluated when the module is loaded (day 0)
INITIAL_STATS == [livesRemaining |-> INITIAL_LIVES, totalPoints |-> 0,
                  gamesPlayed |-> 0, highScore |-> 0,
                  lastLifeReset |-> 0, lastLoginDate |-> 0, loginStreak |-> 1]

\* GameContext.tsx 436-442, from the reset button of the settings screen
\* (Settings.tsx 28-36)
resetAllData ==
    /\ ~mounted
    /\ stats' = INITIAL_STATS
    /\ upgrades' = {}
    /\ challenges' = INITIAL_CHALLENGES
    /\ activePowerUps' = <<>>
    /\ log' = [NoLog EXCEPT !.op = "reset"]
    /\ UNCHANGED <<currentPoints, gameActive, playerSize, gameMode, today, bonuses, mounted,
                   canvasVars, timerPoints, ticks, deaths>>

\* GameContext.tsx 426-434. No file under src/ calls it; it is taken as a
\* call from a screen other than the game screen.
claimChallengeReward(challengeId) ==
    /\ ~mounted
    /\ stats.totalPoints < MaxPoints
    /\ stats' = IF challengeId \in ChallengeIds /\ challenges[challengeId].completed
                THEN [prevStats(Pending) EXCEPT !.totalPoints = @ + Reward[challengeId]]
                ELSE stats
    /\ log' = [NoLog EXCEPT !.op = "claim", !.id = challengeId]
    /\ UNCHANGED <<upgrades, challenges, activePowerUps, currentPoints, gameActive,
                   playerSize, gameMode, today, bonuses, mounted, canvasVars, timerPoints, ticks, deaths>>

\* frames are modelled near the start and near the end of a countdown
InWindow ==
    /\ gameMode = "timeAttack" =>
          \/ timeRemaining > TIME_ATTACK_DURATION - MaxSecs
          \/ timeRemaining <= MaxSecs
    /\ gameMode = "battleRoyale" =>
          \/ playAreaRadius > InitialRadius - MaxSecs * BATTLE_ROYALE_SHRINK_RATE
          \/ playAreaRadius = BATTLE_ROYALE_MIN_RADIUS

\* One animation frame of the game loop (part_000 164-185): updateGame runs
\* and the updates it queued are applied
Frame(in) ==
    /\ mounted /\ gameActive /\ ~gameOver /\ ~isPaused
    /\ ticks < MaxTicks /\ InWindow
    /\ in.eatP + SumTo(in.eatB, Len(bots)) <= foods
    /\ \E r \in {updateGame(in)} :
        /\ playerSize' = r.q.ps
        /\ gameActive' = r.q.ga
        /\ gameOver' = r.q.go
        /\ currentPoints' = r.q.pts
        /\ stats' = r.q.st
        /\ challenges' = r.q.ch
        /\ deaths' = r.q.dth
        /\ player' = r.player
        /\ idleMs' = r.idleMs
        /\ foods' = r.foods
        /\ bots' = r.bots
        /\ log' = r.log
        /\ timerPoints' = timerClosure(mounted, r.q.ga, r.q.go, isPaused, gameMode, r.q.pts)
    /\ ticks' = ticks + 1
    /\ UNCHANGED <<upgrades, activePowerUps, gameMode, today, bonuses, mounted, isPaused,
                   timeRemaining, playAreaRadius>>

----------------------------------------------------------------------------
(* Spec: the session around the runs.  Every operation, few frames.        *)

Tick == \E in \in SessionFrames : Frame(in)

Next ==
    \/ \E m \in Modes : SetGameMode(m)
    \/ \E row \in SessionRows : Mount(Center, row)
    \/ GoHome
    \/ StartGame
    \/ \E row \in SessionRows : handleRestart(Center, row)
    \/ TogglePause
    \/ Second
    \/ Tick

Spec == Init /\ [][Next]_vars

----------------------------------------------------------------------------
(* SpecArena: one run of a profile with one life, every sampled frame.     *)

InitArena == Init /\ stats.livesRemaining = 1

TickArena == \E in \in ArenaFrames : Frame(in)

NextArena ==
    \/ \E m \in Modes : SetGameMode(m)
    \/ \E place \in {Center, Edge}, row \in SizeRows : Mount(place, row)
    \/ StartGame
    \/ Second
    \/ TickArena

SpecArena == InitArena /\ [][NextArena]_vars

----------------------------------------------------------------------------
(* SpecFood: one classic run with the bots away from the player, every     *)
(* sampled bite of food.                                                   *)

TickFood == \E in \in {Quiet} \cup FoodFrames : Frame(in)

NextFood ==
    \/ \E row \in SessionRows : Mount(Edge, row)
    \/ StartGame
    \/ TickFood

SpecFood == InitArena /\ [][NextFood]_vars

----------------------------------------------------------------------------
(* SpecStore: a profile with points to spend visits the store and the      *)
(* settings, then plays a classic run among larger bots.                   *)

InitStore ==
    /\ stats = [INITIAL_STATS EXCEPT !.totalPoints = InitPoints, !.livesRemaining = 1]
    /\ upgrades = {}
    /\ challenges = INITIAL_CHALLENGES
    /\ Constructed

NextStore ==
    \/ \E id \in UpgradeIds \cup {"unknown"} : handlePurchase(id)
    \/ resetAllData
    \/ \E row \in {[i \in 1..NumBots |-> 3000]} : Mount(Center, row)
    \/ StartGame
    \/ TogglePause
    \/ Second
    \/ Frame(Quiet)

SpecStore == InitStore /\ [][NextStore]_vars

----------------------------------------------------------------------------
(* SpecSteer: the steering decision of every bot of a run, over sampled    *)
(* places and sizes of the bots, the player and the food around them.      *)

SteerPlaces == {Center, <<530, 750>>, <<570, 750>>}
FoodSpots == {Center, <<400, 750>>, <<500, 1000>>}
FoodSights == {<<>>} \cup {<<p>> : p \in FoodSpots} \cup
              {<<p, q>> : p \in FoodSpots, q \in FoodSpots}
WanderDirs == {<<1, 1>>, <<-1, -1>>}

\* bot 1 is a bot of size 20 at the centre, the others are smaller or larger
SteerBots ==
    {[i \in 1..NumBots |-> [id |-> i - 1,
                            pos |-> IF i = 1 THEN Center ELSE p[i],
                            size |-> IF i = 1 THEN 2000 ELSE z[i]]] :
         p \in [2..NumBots -> SteerPlaces], z \in [2..NumBots -> {1000, 3000}]}

\* a run in progress
InitSteer ==
    /\ stats = INITIAL_STATS
    /\ upgrades = {}
    /\ challenges = INITIAL_CHALLENGES
    /\ today = 0
    /\ bonuses = 0
    /\ activePowerUps \in {<<>>, <<[id |-> "shield", expiresIn |-> EffectDuration["shield"]]>>}
    /\ currentPoints = 0
    /\ gameActive = TRUE
    /\ playerSize \in {PLAYER_MIN_SIZE, 3000}
    /\ gameMode \in {"classic", "team"}
    /\ mounted = TRUE
    /\ player \in {Center, <<560, 750>>, Edge}
    /\ bots \in SteerBots
    /\ foods = FOOD_COUNT
    /\ gameOver = FALSE
    /\ isPaused = FALSE
    /\ timeRemaining = TIME_ATTACK_DURATION
    /\ playAreaRadius = InitialRadius
    /\ idleMs = 0
    /\ timerPoints = 0
    /\ ticks = 0
    /\ deaths = 0
    /\ log = NoLog

\* the decision of bot i in the frame that follows the sampled state,
\* observed (the movement that follows is the botDest of a frame's inputs)
Steer(i, food, selectedTeam, v) ==
    /\ mounted /\ gameActive /\ ~gameOver /\ ~isPaused
    /\ log.op = "none"
    /\ log' = [NoLog EXCEPT !.op = "steer", !.steer = steerBot(i, food, selectedTeam, v)]
    /\ UNCHANGED <<ctxVars, mounted, canvasVars, timerPoints, ticks, deaths>>

NextSteer ==
    \E i \in 1..NumBots, food \in FoodSights, selectedTeam \in {"red", "blue"},
       v \in WanderDirs : Steer(i, food, selectedTeam, v)

SpecSteer == InitSteer /\ [][NextSteer]_vars

----------------------------------------------------------------------------
(* SpecChallenge: a profile whose challenges are fresh or about to be      *)
(* completed plays classic runs; the clock of a frame reads up to five     *)
(* minutes since gameStartTime.                                            *)

NearlyDone == [INITIAL_CHALLENGES EXCEPT !["eat_10_blobs"].currentValue = 9,
                                         !["play_daily"].currentValue = 4]

SurviveFrames == {[Quiet EXCEPT !.minutes = m] : m \in {0, 1, 2, 5}}

InitChallenge ==
    /\ stats \in {[INITIAL_STATS EXCEPT !.livesRemaining = 2, !.totalPoints = p] :
                     p \in {0, Price["double_points"]}}
    /\ upgrades \in {{}, {"point_multiplier"}}
    /\ challenges \in {INITIAL_CHALLENGES, NearlyDone}
    /\ Constructed

TickChallenge == \E in \in SurviveFrames : Frame(in)

NextChallenge ==
    \/ handlePurchase("double_points")
    \/ \E id \in ChallengeIds : claimChallengeReward(id)
    \/ resetAllData
    \/ \E row \in SessionRows : Mount(Center, row)
    \/ GoHome
    \/ StartGame
    \/ TickChallenge

SpecChallenge == InitChallenge /\ [][NextChallenge]_vars

----------------------------------------------------------------------------
(* SpecThrow: sessions in which a frame of the game loop may throw.        *)

\* part_000 168-176: updateGame or draw throws and the catch block of the
\* game loop runs. The frame throws before updateGame changed anything
\* (late = FALSE) or in draw, after all of updateGame (late = TRUE). The catch
\* block calls setGameOver(true) and requests no further frame.
FrameThrows(in, late) ==
    /\ mounted /\ gameActive /\ ~gameOver /\ ~isPaused
    /\ ticks < MaxTicks /\ InWindow
    /\ in.eatP + SumTo(in.eatB, Len(bots)) <= foods
    /\ \E r \in {updateGame(in)} :
        IF late
        THEN /\ playerSize' = r.q.ps
             /\ gameActive' = r.q.ga
             /\ currentPoints' = r.q.pts
             /\ stats' = r.q.st
             /\ challenges' = r.q.ch
             /\ deaths' = r.q.dth
             /\ player' = r.player
             /\ idleMs' = r.idleMs
             /\ foods' = r.foods
             /\ bots' = r.bots
             /\ timerPoints' = timerClosure(mounted, r.q.ga, TRUE, isPaused, gameMode, r.q.pts)
        ELSE /\ timerPoints' = timerClosure(mounted, gameActive, TRUE, isPaused, gameMode,
                                            currentPoints)
             /\ UNCHANGED <<playerSize, gameActive, currentPoints, stats, challenges,
                            deaths, player, idleMs, foods, bots>>
    /\ gameOver' = TRUE
    /\ log' = [NoLog EXCEPT !.op = "throw"]
    /\ ticks' = ticks + 1
    /\ UNCHANGED <<upgrades, activePowerUps, gameMode, today, bonuses, mounted, isPaused,
                   timeRemaining, playAreaRadius>>

Throw == \E in \in SessionFrames, late \in BOOLEAN : FrameThrows(in, late)

NextThrow ==
    \/ \E row \in SessionRows : Mount(Center, row)
    \/ GoHome
    \/ StartGame
    \/ \E row \in SessionRows : handleRestart(Center, row)
    \/ Tick
    \/ Throw

SpecThrow == Init /\ [][NextThrow]_vars

----------------------------------------------------------------------------
(* SpecDaily: a stored profile of some earlier day is loaded and the app    *)
(* stays open over the following days.                                      *)

\* GameContext.tsx 257-291: the daily reset and login streak effect. It runs
\* after a render in which stats changed, and on the first render.
DailyEffect ==
    /\ stats' =
         IF stats.lastLifeReset # today
         THEN LET updatedStats == [stats EXCEPT !.livesRemaining = DAILY_LIVES,
                                                !.lastLifeReset = today]
                  yesterday == today - 1
                  loginStreak == IF stats.lastLoginDate = yesterday
                                 THEN stats.loginStreak + 1 ELSE 1
                  streakBonus == Min(loginStreak * STREAK_POINTS, STREAK_BONUS_MAX)
              IN  IF stats.lastLoginDate # today
                  THEN [updatedStats EXCEPT !.loginStreak = loginStreak,
                                            !.lastLoginDate = today,
                                            !.totalPoints = @ + streakBonus]
                  ELSE updatedStats
         ELSE stats
    /\ bonuses' = IF stats.lastLifeReset # today /\ stats.lastLoginDate # today
                  THEN Min(bonuses + 1, MaxBonuses) ELSE bonuses
    /\ log' = [NoLog EXCEPT !.op = "daily"]
    /\ UNCHANGED <<upgrades, challenges, today, activePowerUps, currentPoints, gameActive,
                   playerSize, gameMode, mounted, canvasVars, timerPoints, ticks, deaths>>

\* new Date() of the effect (258) reads the next calendar day
Midnight ==
    /\ today < MaxDays
    /\ today' = today + 1
    /\ bonuses' = 0
    /\ log' = [NoLog EXCEPT !.op = "midnight"]
    /\ UNCHANGED <<stats, upgrades, challenges, activePowerUps, currentPoints, gameActive,
                   playerSize, gameMode, mounted, canvasVars, timerPoints, ticks, deaths>>

\* the stored stats were written by the effect of an earlier day or of today
StoredStats ==
    {[INITIAL_STATS EXCEPT !.livesRemaining = l, !.lastLifeReset = d,
                           !.lastLoginDate = d, !.loginStreak = k] :
        l \in {1, DAILY_LIVES}, d \in {-2, -1, 0}, k \in {1, 9, 10}}

InitDaily ==
    /\ stats \in StoredStats
    /\ upgrades = {}
    /\ challenges = INITIAL_CHALLENGES
    /\ Constructed

NextDaily ==
    \/ DailyEffect
    \/ Midnight
    \/ resetAllData
    \/ \E row \in {[i \in 1..NumBots |-> 3000]} : Mount(Center, row)
    \/ GoHome
    \/ StartGame
    \/ Frame(Quiet)

SpecDaily == InitDaily /\ [][NextDaily]_vars

----------------------------------------------------------------------------
(* The claims *)

\* C1: after every simulation tick, in every mode, the player's size as the
\* context stores it (playerSize) is at least 20, also after idle decay from
\* a size between 20 and 20.5 and after battle-royale zone damage.
C1_PlayerSizeAtLeastMin ==
    log.op = "tick" => playerSize >= PLAYER_MIN_SIZE

\* C2: stats.livesRemaining stays within 0..10 in every reachable state; it
\* never becomes negative, also when handleGameOver runs more than once
\* before the stats are read again.
C2_LivesInRange ==
    stats.livesRemaining \in 0..INITIAL_LIVES

\* C3: a step that ends a lost run without auto-revive consumes exactly one
\* life (none if the pool is empty), however many larger bots overlap the
\* player in the tick that ends the run.
C3_OneLifePerLostRun ==
    [][(~gameOver /\ gameOver' /\ ~Owned("auto_revive") /\ ~log'.won)
          => stats'.livesRemaining = Max(0, stats.livesRemaining - 1)]_vars

\* C4: with auto-revive owned, the first death of a run is absorbed (the
\* session stays Active, the size is reset to 20, no life is consumed); a
\* death in a later tick of the same run ends the session and consumes a
\* life.
C4_OnlyFirstDeathAbsorbed ==
    [][(Owned("auto_revive") /\ log'.op = "tick" /\ log'.died > 0) =>
          /\ (deaths = 0 /\ log'.died = 1) =>
                /\ gameActive' /\ ~gameOver'
                /\ stats'.livesRemaining = stats.livesRemaining
                /\ log'.ateAfterDeath \/ playerSize' = PLAYER_MIN_SIZE
          /\ deaths >= 1 =>
                /\ gameOver' /\ ~gameActive'
                /\ stats'.livesRemaining = Max(0, stats.livesRemaining - 1)]_vars

\* C5: when a mode's terminal condition fires in an Active session (the
\* timeAttack timer reaches 0, or no bot is left in battleRoyale), the
\* session becomes Ended: gameOver is set and gameActive is cleared, also
\* when auto-revive is owned.
C5_TerminalConditionEnds ==
    [][(log'.expired \/ log'.won) => (gameOver' /\ ~gameActive')]_vars

\* C6: overlapping entities of equal size never consume each other: no bot
\* removes a bot of its own size, and without instant-kill a bot of the
\* player's size is neither eaten by the player nor ends the player's run.
C6_EqualSizesNeverConsume ==
    log.op = "tick" =>
        /\ \A p \in log.pairs : p[1] # p[2]
        /\ ~log.equalEaten
        /\ ~log.equalKill

\* C7: within one tick an entity that is consumed does not itself consume:
\* no bot both eats a bot and is eaten by a bot in the same bot-vs-bot pass,
\* and a player who has been eaten by a bot eats no bot later in the same
\* player-vs-bot pass.
C7_ConsumedDoesNotConsume ==
    log.op = "tick" =>
        /\ log.eaters \cap log.botEaten = {}
        /\ ~log.ateAfterDeath

\* C8: in classic, timeAttack and team mode every bot removed during a tick,
\* by the player or by another bot, is replaced by exactly one new bot in
\* that tick, so the bot count after every tick is the count at run start.
C8_EveryRemovedBotReplaced ==
    (log.op = "tick" /\ gameMode # "battleRoyale") =>
        /\ log.spawned = Cardinality(log.botEaten) + log.byPlayer
        /\ Len(bots) = NumBots

C10_RestartResetsRun ==
    log.op = "restart" =>
        /\ gameActive /\ ~gameOver
        /\ currentPoints = 0
        /\ playerSize = PLAYER_MIN_SIZE
        /\ Len(bots) = NumBots
        /\ foods = FOOD_COUNT
        /\ timeRemaining = TIME_ATTACK_DURATION
        /\ playAreaRadius = InitialRadius

\* C11: the restart from Ended is taken only with livesRemaining > 0; with
\* no life left handleRestart changes nothing: the session stays Ended and
\* the World, the score and the lives are as they were.
C11_RestartOnlyWithLives ==
    [][log'.op \in {"restart", "norestart"} =>
          IF stats.livesRemaining > 0
          THEN log'.op = "restart" /\ gameActive' /\ ~gameOver'
          ELSE /\ log'.op = "norestart"
               /\ gameOver' /\ gameActive' = gameActive
               /\ UNCHANGED <<stats, upgrades, challenges, activePowerUps, currentPoints,
                              playerSize, gameMode, today, bonuses, mounted, canvasVars>>]_vars

\* handleRestart was called in Ended with an empty life pool
C11_RefusedRestart ==
    log.op = "norestart" /\ gameOver /\ stats.livesRemaining = 0

\* C12: a run that reaches Ended is folded into the profile exactly once:
\* totalPoints grows by the run's final score times the point multiplier,
\* gamesPlayed grows by exactly 1 and highScore becomes the maximum of its
\* old value and that total, also when the game-over path is triggered
\* several times in the ending tick.
C12_RunFoldedOnce ==
    [][(~gameOver /\ gameOver') =>
          LET total == currentPoints' * (IF Owned("point_multiplier") THEN 2 ELSE 1)
          IN  /\ stats'.totalPoints = stats.totalPoints + total
              /\ stats'.gamesPlayed = stats.gamesPlayed + 1
              /\ stats'.highScore = Max(stats.highScore, total)]_vars

\* C13: a battle-royale win (no bot is left while the player is alive) never
\* decrements livesRemaining, and the run that ends with it is counted in
\* gamesPlayed as a lost run is.
C13_WinKeepsLives ==
    [][(log'.won /\ log'.died = 0) =>
          /\ stats'.livesRemaining = stats.livesRemaining
          /\ gameOver' => stats'.gamesPlayed = stats.gamesPlayed + 1]_vars

\* C14: activePowerUps never holds two entries with the same id, and the
\* (re)activation of a power-up leaves exactly one entry with its id, which
\* expires effectDuration after the activation, and leaves the entries of the
\* other ids as they were.
C14_OneEntryPerPowerUp ==
    [][/\ \A i, j \in 1..Len(activePowerUps') :
              activePowerUps'[i].id = activePowerUps'[j].id => i = j
       /\ (log'.op = "purchase" /\ Category[log'.id] = "powerup") =>
              /\ Cardinality({i \in 1..Len(activePowerUps') :
                                  activePowerUps'[i].id = log'.id}) = 1
              /\ \A i \in 1..Len(activePowerUps') :
                     activePowerUps'[i].id = log'.id =>
                         activePowerUps'[i].expiresIn = EffectDuration[log'.id]
              /\ SelectSeq(activePowerUps', LAMBDA p : p.id # log'.id)
                     = SelectSeq(activePowerUps, LAMBDA p : p.id # log'.id)]_vars

\* a shield bought again while the earlier one and a double_points run
C14_Reactivated ==
    /\ log.op = "purchase" /\ log.id = "shield" /\ log.wasActive
    /\ \E i \in 1..Len(activePowerUps) : activePowerUps[i].id = "double_points"

\* C15: while the run is paused the expiry of the power-ups does not advance:
\* no entry of activePowerUps is removed between two paused states.
C15_NoExpiryWhilePaused ==
    [][(/\ mounted /\ gameActive /\ ~gameOver /\ isPaused
        /\ mounted' /\ gameActive' /\ ~gameOver' /\ isPaused') =>
           \A i \in 1..Len(activePowerUps) :
               \E j \in 1..Len(activePowerUps') :
                   activePowerUps'[j].id = activePowerUps[i].id]_vars

\* C16: while the session is paused or ended no tick executes and the mode
\* timers do not advance: bots, food, player position, timeRemaining and
\* playAreaRadius stay as they are for as long as the session stays paused
\* or ended.
C16_HaltedWhilePausedOrEnded ==
    [][(/\ mounted /\ ((gameActive /\ ~gameOver /\ isPaused) \/ gameOver)
        /\ mounted' /\ ((gameActive' /\ ~gameOver' /\ isPaused') \/ gameOver')
        /\ gameOver' = gameOver) =>
           UNCHANGED <<bots, foods, player, timeRemaining, playAreaRadius, ticks>>]_vars

\* a second of wall-clock time has passed in a paused battle royale whose
\* zone had begun to shrink
C16_SecondWhilePaused ==
    /\ log.op = "second"
    /\ mounted /\ gameActive /\ ~gameOver /\ isPaused
    /\ gameMode = "battleRoyale" /\ playAreaRadius < InitialRadius

\* C17: in battleRoyale the radius of the safe zone is 500 when a run starts,
\* never increases within a run, goes down by 2 (not below 100) with every
\* second of an active, unpaused run, and is never below 100.
C17_ZoneRadius ==
    [][gameMode' = "battleRoyale" =>
          /\ (log'.op \in {"start", "restart"}) => playAreaRadius' = InitialRadius
          /\ (gameActive /\ gameActive') => playAreaRadius' <= playAreaRadius
          /\ (log'.op = "second" /\ TimerLive(mounted, gameActive, gameOver, isPaused)) =>
                 playAreaRadius' = Max(BATTLE_ROYALE_MIN_RADIUS,
                                       playAreaRadius - BATTLE_ROYALE_SHRINK_RATE)
          /\ playAreaRadius' >= BATTLE_ROYALE_MIN_RADIUS]_vars

\* C18 as stated: no context operation, resetAllData included, takes a
\* permanent upgrade away once it is owned.
C18_OwnedForever == [][upgrades \subseteq upgrades']_vars

\* C18: a permanent upgrade that is owned stays owned under every context
\* operation but resetAllData, which restores INITIAL_UPGRADES.
C18_OwnedUntilReset == [][upgrades \subseteq upgrades' \/ log'.op = "reset"]_vars

\* two permanent upgrades are owned and a run has been played to its end
C18_OwnedAfterRun ==
    /\ Cardinality(upgrades) = 2
    /\ gameOver /\ stats.gamesPlayed > 0

C20_AvoidBeforeFood ==
    (log.op = "steer" /\ gameMode # "team") =>
        LET s == log.steer
            bot == bots[s.who]
            larger == {k \in 1..Len(bots) :
                          /\ k # s.who
                          /\ bots[k].size * 10 > bot.size * 12
                          /\ Dist2(bot.pos, bots[k].pos) < AVOID_RANGE * AVOID_RANGE}
            foodNear == \E k \in 1..Len(s.food) :
                            Dist2(bot.pos, s.food[k]) < FOOD_RANGE * FOOD_RANGE
        IN  (larger # {} /\ foodNear) =>
                /\ s.rule = "avoidBot"
                /\ \E k \in larger : s.dir = <<bot.pos[1] - bots[k].pos[1],
                                               bot.pos[2] - bots[k].pos[2]>>

\* C29: no run becomes active while livesRemaining is 0: startGame and
\* handleRestart are refused when the life pool is empty.
C29_NoRunWithoutLives ==
    [][(~gameActive /\ gameActive') => stats.livesRemaining > 0]_vars

\* C30: toggling the pause while no run is in progress has no lasting
\* effect: a run entered by startGame or handleRestart is not paused.
C30_EnteredRunIsActive ==
    [][(log'.op \in {"start", "restart"}) => (gameActive' /\ ~isPaused')]_vars

\* C26: the ids of the bots of the world are pairwise distinct after every
\* tick, also after a tick in which the player eats two or more bots and
\* each of them is replaced.
C26_BotIdsDistinct ==
    \A i, j \in 1..Len(bots) : bots[i].id = bots[j].id => i = j

\* C23: idle decay shrinks the player only in a tick in which no movement was
\* applied; a tick that applies movement takes no size from the player by
\* decay, also when it follows a pause of more than 2000 ms.
C23_NoDecayWhileMoving ==
    log.op = "tick" /\ log.decayed => ~log.moved

\* C28: totalPoints is never negative; the purchase of an unknown upgrade, of
\* an owned one or of one that costs more than totalPoints changes no state,
\* and every other purchase deducts exactly the price.
C28_PurchaseGuarded ==
    [][/\ stats'.totalPoints >= 0
       /\ (log'.op \in {"purchase", "nopurchase"}) =>
              IF /\ log'.id \in UpgradeIds
                 /\ ~Owned(log'.id)
                 /\ stats.totalPoints >= Price[log'.id]
              THEN stats'.totalPoints = stats.totalPoints - Price[log'.id]
              ELSE UNCHANGED <<stats, upgrades, activePowerUps>>]_vars

\* after an earlier purchase the profile cannot pay for the next one
C28_RefusedForPoints ==
    /\ log.op = "nopurchase" /\ log.id \in UpgradeIds
    /\ ~Owned(log.id)
    /\ stats.totalPoints < Price[log.id]
    /\ upgrades # {}


C25_SurvivorNeedsFiveMinutes ==
    [][(log'.op = "tick" /\ challenges'["survive_5_minutes"] # challenges["survive_5_minutes"])
       => /\ challenges'["survive_5_minutes"].currentValue
                 = Min(log'.minutes, TargetValue["survive_5_minutes"])
          /\ challenges'["survive_5_minutes"].completed
                 = (log'.minutes >= TargetValue["survive_5_minutes"])]_vars

\* C27: a claim of a challenge whose reward was added when it completed adds
\* nothing; currentValue stays within targetValue; completed only returns to
\* false by resetAllData.
C27_RewardOnce ==
    [][/\ (log'.op = "claim") => stats'.totalPoints = stats.totalPoints
       /\ \A id \in ChallengeIds :
              /\ challenges'[id].currentValue <= TargetValue[id]
              /\ (challenges[id].completed /\ log'.op # "reset") =>
                     challenges'[id].completed]_vars

\* C22: a frame that throws ends the run as the game-over path does: the
\* game-over screen shows, the run is no longer active and the run is counted
\* in gamesPlayed and costs a life.
C22_ThrowEndsRun ==
    [][(log'.op = "throw") =>
           /\ gameOver'
           /\ ~gameActive'
           /\ stats'.gamesPlayed > stats.gamesPlayed
           /\ stats'.livesRemaining < stats.livesRemaining]_vars

\* C21: a run of the daily effect on a day on which the profile has not yet
\* logged in sets the lives to 10, raises loginStreak by 1 if lastLoginDate is
\* yesterday and else sets it to 1, and adds min(loginStreak * 5, 50) to
\* totalPoints; the bonus is credited at most once on a day, and a run of the
\* effect on a day whose bonus is credited changes nothing.
C21_DailyOnce ==
    [][(log'.op = "daily") =>
           /\ bonuses' <= 1
           /\ IF bonuses > 0
              THEN stats' = stats
              ELSE (stats.lastLoginDate # today) =>
                       LET k == IF stats.lastLoginDate = today - 1
                                THEN stats.loginStreak + 1 ELSE 1
                       IN  /\ stats'.loginStreak = k
                           /\ stats'.totalPoints = stats.totalPoints
                                  + (IF k * 5 < 50 THEN k * 5 ELSE 50)
                           /\ stats'.livesRemaining = 10
                           /\ stats'.lastLoginDate = today]_vars
====
